---------------------------- MODULE Spec2Model ----------------------------
(***************************************************************************)
(* Model of twitch_discord_notifier.py: the polling loop of main() and the *)
(* StreamState policy (should_send_notification,                           *)
(* should_send_milestone_notification, update_state, save_state,           *)
(* load_state).                                                            *)
(*                                                                         *)
(* The in-memory StreamState is the four variables last_online, last_game, *)
(* last_notification_time, triggered_milestones (last_title is written     *)
(* next to last_game and never read, so it is folded into last_game).      *)
(* state_file is stream_state.json.  The clock `now` is time.time() in     *)
(* seconds.  One loop iteration ("tick") is the chain                      *)
(*   Poll -> LiveNotify -> MilestoneNotify -> UpdateState -> Sleep         *)
(* and an exception anywhere in the iteration leads to ErrorSleep.         *)
(***************************************************************************)
EXTENDS Integers, Sequences, FiniteSets, TLC

VARIABLES
    last_online,             \* StreamState.last_online
    last_game,               \* StreamState.last_game ("None" for None)
    last_notification_time,  \* StreamState.last_notification_time
    triggered_milestones,    \* StreamState.triggered_milestones
    state_file,              \* contents of stream_state.json
    message_template,        \* config['notification']['message_template']
    notify_on_game_change,   \* config['notification']['notify_on_game_change']
    silent_mode,             \* config['advanced']['silent_mode']
    pc,                      \* position of main() in its loop
    stream_info,             \* result of this tick's poll
    now,                     \* time.time()
    state_file_writable,     \* whether open(state_file, 'w') succeeds in this environment
    slept,                   \* argument of the time.sleep() that just returned (0: none)
    \* history variables (observations, not program state)
    poll_outcome,            \* how this tick's poll ended
    tick_start,              \* StreamState when this tick began
    intents,                 \* intents emitted in this tick, in order
    sent,                    \* send attempts made in this tick, in order
    live_times,              \* clock values at which a live intent fired, in order
    session_intents          \* thresholds with a milestone intent in this real session

policy == <<last_online, last_game, last_notification_time, triggered_milestones>>
config == <<message_template, notify_on_game_change, silent_mode>>
history == <<poll_outcome, tick_start, intents, sent, live_times, session_intents>>
vars == <<policy, state_file, state_file_writable, config, pc, stream_info, now, slept, history>>

----------------------------------------------------------------------------
(* Configuration and bounds *)

notification_cooldown_minutes == 15
interval_seconds == 60
offline_check_multiplier == 3
error_delay == 10
viewer_milestone_notifications == <<50, 100, 500>>

\* granularity of the clock and how far it may run
ClockStep == 300
MaxStep == 2
MaxClockTicks == 4

Games == {"g1", "g2"}
ViewerCounts == {40, 50, 600}

cooldown == notification_cooldown_minutes * 60
\* time.time() is far above the cooldown when the process starts
StartTime == cooldown + ClockStep
MaxTime == StartTime + MaxClockTicks * ClockStep

None == "None"
\* stream_data of an offline channel (get_stream_info returned None)
Offline == [online |-> FALSE, game_name |-> None, viewer_count |-> 0]
Snapshots == [online : {TRUE}, game_name : Games, viewer_count : ViewerCounts]

\* the StreamState object as one value
Self == [last_online |-> last_online,
         last_game |-> last_game,
         last_notification_time |-> last_notification_time,
         triggered_milestones |-> triggered_milestones]

\* StreamState.__init__ before load_state
DefaultState == [last_online |-> FALSE,
                 last_game |-> None,
                 last_notification_time |-> 0,
                 triggered_milestones |-> {}]

----------------------------------------------------------------------------
(* Pure parts of StreamState *)

Range(s) == {s[i] : i \in 1..Len(s)}

\* sorted(milestones)
\* a variant of sorted with a slip: descending order
sorted_descending(s) == SortSeq(s, LAMBDA a, b : a > b)

sorted(s) == SortSeq(s, LAMBDA a, b : a < b)

\* list(a_set): the elements in some order
RECURSIVE list(_)
list(S) == IF S = {} THEN <<>>
           ELSE LET x == CHOOSE y \in S : TRUE IN <<x>> \o list(S \ {x})

\* variants of should_send_notification with one slip each
\* the game-change rule forgets the cooldown
should_send_notification_ungated(self, info, current_time) ==
    IF info.online /\ ~self.last_online
    THEN IF current_time - self.last_notification_time > cooldown
         THEN [ret |-> TRUE,
               self |-> [self EXCEPT !.last_notification_time = current_time]]
         ELSE [ret |-> FALSE, self |-> self]
    ELSE IF /\ info.online
            /\ self.last_online
            /\ notify_on_game_change
            /\ info.game_name # self.last_game
         THEN [ret |-> TRUE,
               self |-> [self EXCEPT !.last_notification_time = current_time]]
         ELSE [ret |-> FALSE, self |-> self]

\* the cooldown comparison is >= instead of >
should_send_notification_ge(self, info, current_time) ==
    IF info.online /\ ~self.last_online
    THEN IF current_time - self.last_notification_time >= cooldown
         THEN [ret |-> TRUE,
               self |-> [self EXCEPT !.last_notification_time = current_time]]
         ELSE [ret |-> FALSE, self |-> self]
    ELSE IF /\ info.online
            /\ self.last_online
            /\ notify_on_game_change
            /\ info.game_name # self.last_game
            /\ current_time - self.last_notification_time >= cooldown
         THEN [ret |-> TRUE,
               self |-> [self EXCEPT !.last_notification_time = current_time]]
         ELSE [ret |-> FALSE, self |-> self]

\* the go-live rule stamps last_notification_time before the cooldown test
should_send_notification_stamps(self, info, current_time) ==
    IF info.online /\ ~self.last_online
    THEN [ret |-> current_time - self.last_notification_time > cooldown,
          self |-> [self EXCEPT !.last_notification_time = current_time]]
    ELSE IF /\ info.online
            /\ self.last_online
            /\ notify_on_game_change
            /\ info.game_name # self.last_game
            /\ current_time - self.last_notification_time > cooldown
         THEN [ret |-> TRUE,
               self |-> [self EXCEPT !.last_notification_time = current_time]]
         ELSE [ret |-> FALSE, self |-> self]

should_send_notification(self, info, current_time) ==
    IF info.online /\ ~self.last_online
    THEN IF current_time - self.last_notification_time > cooldown
         THEN [ret |-> TRUE,
               self |-> [self EXCEPT !.last_notification_time = current_time]]
         ELSE [ret |-> FALSE, self |-> self]
    ELSE IF /\ info.online
            /\ self.last_online
            /\ notify_on_game_change
            /\ info.game_name # self.last_game
            /\ current_time - self.last_notification_time > cooldown
         THEN [ret |-> TRUE,
               self |-> [self EXCEPT !.last_notification_time = current_time]]
         ELSE [ret |-> FALSE, self |-> self]

\* the loop of should_send_milestone_notification from position i of the
\* sorted list: the first threshold reached and not yet triggered, 0 if none
RECURSIVE milestone_loop(_, _, _, _)
milestone_loop(ms, i, self, info) ==
    IF i > Len(ms) THEN 0
    ELSE IF info.viewer_count >= ms[i] /\ ms[i] \notin self.triggered_milestones
         THEN ms[i]
         ELSE milestone_loop(ms, i + 1, self, info)

\* a variant of should_send_milestone_notification with a slip: the
\* threshold is reported but not recorded
should_send_milestone_notification_unrecorded(self, info) ==
    IF ~info.online THEN [ret |-> FALSE, milestone |-> 0, self |-> self]
    ELSE LET m == milestone_loop(sorted(viewer_milestone_notifications), 1, self, info)
         IN [ret |-> m # 0, milestone |-> m, self |-> self]

should_send_milestone_notification(self, info) ==
    IF ~info.online THEN [ret |-> FALSE, milestone |-> 0, self |-> self]
    ELSE LET m == milestone_loop(sorted(viewer_milestone_notifications), 1, self, info)
         IN IF m # 0
            THEN [ret |-> TRUE, milestone |-> m,
                  self |-> [self EXCEPT !.triggered_milestones = @ \cup {m}]]
            ELSE [ret |-> FALSE, milestone |-> 0, self |-> self]

\* a variant of update_fields with a slip: last_game is dropped only once
\* the stream was already recorded offline
update_fields_lagging(self, info) ==
    IF info.online
    THEN [self EXCEPT !.last_online = TRUE, !.last_game = info.game_name]
    ELSE [self EXCEPT !.last_online = FALSE, !.triggered_milestones = {},
                      !.last_game = IF self.last_online THEN @ ELSE None]

\* update_state without its trailing save_state
update_fields(self, info) ==
    IF info.online
    THEN [self EXCEPT !.last_online = TRUE, !.last_game = info.game_name]
    ELSE [self EXCEPT !.last_online = FALSE, !.triggered_milestones = {}]

NoFile == [kind |-> "absent"]
CorruptFile == [kind |-> "corrupt"]

\* what save_state writes when the write succeeds
json_dump(self) ==
    [kind |-> "json",
     last_online |-> self.last_online,
     last_game |-> self.last_game,
     last_notification_time |-> self.last_notification_time,
     triggered_milestones |-> list(self.triggered_milestones)]

\* save_state: the write succeeds, open() fails and leaves the file alone
\* (the directory is not writable), or the write fails after open(..., 'w')
\* truncated the file
save_state(self, file, io) ==
    CASE io = "ok" -> json_dump(self)
      [] io = "open_failed" -> file
      [] OTHER -> CorruptFile

SaveOutcomes == {"ok", "open_failed", "write_failed"}

\* update_state: the fields, then save_state
update_state(self, file, info, io) ==
    LET s == update_fields(self, info)
    IN [self |-> s, file |-> save_state(s, file, io)]

\* a file that parses as a JSON object but whose 'triggered_milestones' is
\* not iterable (null, a number): set(...) of line 270 raises TypeError
IllTypedFile ==
    [kind |-> "json_ill_typed",
     last_online |-> TRUE,
     last_game |-> "g1",
     last_notification_time |-> ClockStep]

\* the policy state one tick of main() gives when nothing is sent: the two
\* evaluations (lines 493, 502) and update_state (line 511) in a row
tick_policy(self, info, current_time) ==
    LET live == should_send_notification(self, info, current_time).self
        milestone == should_send_milestone_notification(live, info).self
    IN update_fields(milestone, info)

\* load_state applied to a freshly constructed StreamState: the fields are
\* assigned one by one inside the try (lines 266-270), so an exception at
\* line 270 leaves the assignments of lines 266-269 in place
load_state(self, file) ==
    IF file.kind = "json"
    THEN [last_online |-> file.last_online,
          last_game |-> file.last_game,
          last_notification_time |-> file.last_notification_time,
          triggered_milestones |-> Range(file.triggered_milestones)]
    ELSE IF file.kind = "json_ill_typed"
    THEN [self EXCEPT !.last_online = file.last_online,
                      !.last_game = file.last_game,
                      !.last_notification_time = file.last_notification_time]
    ELSE self

----------------------------------------------------------------------------
(* The program *)

NoIntents == <<>>

Init ==
    /\ last_online = DefaultState.last_online
    /\ last_game = DefaultState.last_game
    /\ last_notification_time = DefaultState.last_notification_time
    /\ triggered_milestones = DefaultState.triggered_milestones
    /\ state_file = NoFile
    /\ state_file_writable \in BOOLEAN
    /\ message_template = "live"
    /\ notify_on_game_change \in BOOLEAN
    /\ silent_mode \in BOOLEAN
    /\ pc = "poll"
    /\ stream_info = Offline
    /\ now = StartTime
    /\ slept = 0
    /\ poll_outcome = "none"
    /\ tick_start = DefaultState
    /\ intents = NoIntents
    /\ sent = <<>>
    /\ live_times = <<>>
    /\ session_intents = {}

SetPolicy(s) ==
    /\ last_online' = s.last_online
    /\ last_game' = s.last_game
    /\ last_notification_time' = s.last_notification_time
    /\ triggered_milestones' = s.triggered_milestones

\* the real stream going offline ends the session
SessionAfterPoll(real_online) ==
    IF real_online THEN session_intents ELSE {}

\* get_stream_info returns: the real status, or None after a RequestException
\* of the GET (lines 119-129)
Poll ==
    /\ pc = "poll"
    /\ \E real \in Snapshots \cup {Offline}, outcome \in {"ok", "network_error"} :
          /\ stream_info' = IF outcome = "ok" THEN real ELSE Offline
          /\ poll_outcome' = outcome
          /\ session_intents' = SessionAfterPoll(real.online)
          /\ pc' = IF stream_info'.online THEN "notify" ELSE "update_state"
    /\ slept' = 0
    /\ UNCHANGED <<policy, state_file, state_file_writable, config, now,
                   tick_start, intents, sent, live_times>>

\* get_stream_info raises: authenticate() re-raises its RequestException
\* (line 85), or the response is malformed (KeyError)
PollRaises ==
    /\ pc = "poll"
    /\ \E real_online \in BOOLEAN :
          session_intents' = SessionAfterPoll(real_online)
    /\ stream_info' = Offline
    /\ poll_outcome' = "raised"
    /\ pc' = "error_sleep"
    /\ slept' = 0
    /\ UNCHANGED <<policy, state_file, state_file_writable, config, now,
                   tick_start, intents, sent, live_times>>

SendOutcomes == {"ok", "failed", "raised"}

\* a variant of after_send with a slip: a delivery failure is not caught in
\* send_notification and ends the tick like any other exception
\* a variant of after_send with a slip: a send that returns False ends the
\* tick before update_state
after_send_failure_ends_tick(result, next_pc) ==
    IF result = "raised" THEN "error_sleep"
    ELSE IF result = "failed" THEN "sleep" ELSE next_pc

after_send_fatal(result, next_pc) ==
    IF result = "raised" THEN "stopped" ELSE next_pc

after_send_failure_aborts(result, next_pc) ==
    IF result = "ok" THEN next_pc ELSE "error_sleep"

\* where main() continues after send_notification: it returns True or False
\* (a RequestException of the POST is caught, lines 242-244) and main goes
\* on, or an exception of the embed formatting leaves the loop body
after_send(result, next_pc) ==
    IF result = "raised" THEN "error_sleep" ELSE next_pc

\* lines 493-499
LiveNotify ==
    /\ pc = "notify"
    /\ LET r == should_send_notification(Self, stream_info, now) IN
         /\ SetPolicy(r.self)
         /\ IF r.ret
            THEN /\ intents' = Append(intents, [kind |-> "live", milestone |-> 0])
                 /\ live_times' = Append(live_times, now)
                 /\ IF ~silent_mode
                    THEN \E o \in SendOutcomes :
                           /\ sent' = Append(sent, [kind |-> "live",
                                                    template |-> message_template,
                                                    result |-> o])
                           /\ pc' = after_send(o, "milestone")
                    ELSE /\ sent' = sent
                         /\ pc' = "milestone"
            ELSE /\ UNCHANGED <<intents, live_times, sent>>
                 /\ pc' = "milestone"
    /\ UNCHANGED <<state_file, state_file_writable, config, stream_info, now, slept,
                   poll_outcome, tick_start, session_intents>>

\* lines 501-506
MilestoneNotify ==
    /\ pc = "milestone"
    /\ LET r == should_send_milestone_notification(Self, stream_info) IN
         /\ SetPolicy(r.self)
         /\ IF r.ret
            THEN /\ intents' = Append(intents, [kind |-> "milestone",
                                                milestone |-> r.milestone])
                 /\ session_intents' = session_intents \cup {r.milestone}
                 /\ IF ~silent_mode
                    THEN \E o \in SendOutcomes :
                           \* milestone_config = config.copy() is a shallow copy:
                           \* the assignment writes config['notification'] itself
                           /\ message_template' = "milestone"
                           /\ sent' = Append(sent, [kind |-> "milestone",
                                                    template |-> message_template',
                                                    result |-> o])
                           /\ pc' = after_send(o, "update_state")
                    ELSE /\ UNCHANGED <<message_template, sent>>
                         /\ pc' = "update_state"
            ELSE /\ UNCHANGED <<intents, session_intents, message_template, sent>>
                 /\ pc' = "update_state"
    /\ UNCHANGED <<state_file, state_file_writable, notify_on_game_change, silent_mode, stream_info,
                   now, slept, poll_outcome, tick_start, live_times>>

\* line 511
UpdateState ==
    /\ pc = "update_state"
    /\ \E io \in SaveOutcomes :
         LET r == update_state(Self, state_file, stream_info, io) IN
           /\ io = "open_failed" <=> ~state_file_writable
           /\ SetPolicy(r.self)
           /\ state_file' = r.file
    /\ pc' = "sleep"
    /\ UNCHANGED <<state_file_writable, config, stream_info, now, slept, history>>

\* the next tick begins: the observations of the finished tick are dropped
NextTick(s) ==
    /\ pc' = "poll"
    /\ stream_info' = Offline
    /\ poll_outcome' = "none"
    /\ tick_start' = s
    /\ intents' = NoIntents
    /\ sent' = <<>>

\* lines 514-521
Sleep ==
    /\ pc = "sleep"
    /\ slept' = IF ~stream_info.online
                THEN interval_seconds * offline_check_multiplier
                ELSE interval_seconds
    /\ \E k \in 0..MaxStep :
         /\ now + k * ClockStep <= MaxTime
         /\ now' = now + k * ClockStep
    /\ NextTick(Self)
    /\ UNCHANGED <<policy, state_file, state_file_writable, config, live_times, session_intents>>

\* lines 523-526
ErrorSleep ==
    /\ pc = "error_sleep"
    /\ slept' = error_delay
    /\ \E k \in 0..MaxStep :
         /\ now + k * ClockStep <= MaxTime
         /\ now' = now + k * ClockStep
    /\ NextTick(Self)
    /\ UNCHANGED <<policy, state_file, state_file_writable, config, live_times, session_intents>>

\* lines 528-530: KeyboardInterrupt ends main(); the locals of the loop and
\* the observations of the run end with it, the StreamState is kept as the
\* process last had it
Interrupt ==
    /\ pc # "stopped"
    /\ pc' = "stopped"
    /\ stream_info' = Offline
    /\ slept' = 0
    /\ poll_outcome' = "none"
    /\ tick_start' = Self
    /\ intents' = NoIntents
    /\ sent' = <<>>
    /\ live_times' = <<>>
    /\ UNCHANGED <<policy, state_file, state_file_writable, config, now, session_intents>>

Next ==
    \/ Poll
    \/ PollRaises
    \/ LiveNotify
    \/ MilestoneNotify
    \/ UpdateState
    \/ Sleep
    \/ ErrorSleep
    \/ Interrupt

Spec == Init /\ [][Next]_vars

\* main() is started again: the configuration is read anew and
\* StreamState.__init__ runs load_state on what the last process left
Restart ==
    /\ pc = "stopped"
    /\ SetPolicy(load_state(DefaultState, state_file))
    /\ message_template' = "live"
    /\ slept' = 0
    /\ live_times' = <<>>
    /\ NextTick(load_state(DefaultState, state_file))
    /\ UNCHANGED <<state_file, state_file_writable, notify_on_game_change, silent_mode,
                   now, session_intents>>

\* the state file main() may find when the process starts: none, one that
\* is not JSON, one that is JSON of the wrong shape, one written by an
\* earlier run
StartupFiles ==
    {NoFile, CorruptFile, IllTypedFile,
     json_dump([last_online |-> TRUE, last_game |-> "g1",
                last_notification_time |-> ClockStep,
                triggered_milestones |-> {50}])}

\* StreamState(config): __init__ sets the defaults and calls load_state
InitStartup ==
    /\ state_file \in StartupFiles
    /\ last_online = load_state(DefaultState, state_file).last_online
    /\ last_game = load_state(DefaultState, state_file).last_game
    /\ last_notification_time = load_state(DefaultState, state_file).last_notification_time
    /\ triggered_milestones = load_state(DefaultState, state_file).triggered_milestones
    /\ tick_start = load_state(DefaultState, state_file)
    /\ state_file_writable \in BOOLEAN
    /\ message_template = "live"
    /\ notify_on_game_change \in BOOLEAN
    /\ silent_mode \in BOOLEAN
    /\ pc = "poll"
    /\ stream_info = Offline
    /\ now = StartTime
    /\ slept = 0
    /\ poll_outcome = "none"
    /\ intents = NoIntents
    /\ sent = <<>>
    /\ live_times = <<>>
    /\ session_intents = {}

SpecStartup == InitStartup /\ [][Next]_vars

\* a step of the loop body; main() is one thread and time.sleep() returns, so
\* the loop keeps stepping until it is interrupted
LoopStep ==
    \/ Poll
    \/ PollRaises
    \/ LiveNotify
    \/ MilestoneNotify
    \/ UpdateState
    \/ Sleep
    \/ ErrorSleep

SpecFair == Init /\ [][Next]_vars /\ WF_vars(LoopStep)

NextRestart == Next \/ Restart

SpecRestart == Init /\ [][NextRestart]_vars

TypeOK ==
    /\ last_online \in BOOLEAN
    /\ last_game \in Games \cup {None}
    /\ last_notification_time \in 0..MaxTime
    /\ triggered_milestones \subseteq Range(viewer_milestone_notifications)
    /\ pc \in {"poll", "notify", "milestone", "update_state", "sleep",
               "error_sleep", "stopped"}
    /\ stream_info \in Snapshots \cup {Offline}
    /\ now \in StartTime..MaxTime

----------------------------------------------------------------------------
(* Observations used by the properties *)

LiveIntent == [kind |-> "live", milestone |-> 0]
MilestoneIntent(m) == [kind |-> "milestone", milestone |-> m]

\* the thresholds of the milestone intents of a tick, in emission order
RECURSIVE MilestonesOf(_)
MilestonesOf(is) ==
    IF is = <<>> THEN <<>>
    ELSE IF Head(is).kind = "milestone"
         THEN <<Head(is).milestone>> \o MilestonesOf(Tail(is))
         ELSE MilestonesOf(Tail(is))

LiveCount(is) == Cardinality({i \in 1..Len(is) : is[i].kind = "live"})

\* the thresholds an online snapshot has reached that were not triggered
\* when the tick began
RECURSIVE PassedFrom(_, _)
PassedFrom(ms, i) ==
    IF i > Len(ms) THEN <<>>
    ELSE IF /\ stream_info.viewer_count >= ms[i]
            /\ ms[i] \notin tick_start.triggered_milestones
         THEN <<ms[i]>> \o PassedFrom(ms, i + 1)
         ELSE PassedFrom(ms, i + 1)

TickCommitted == pc = "sleep"

----------------------------------------------------------------------------
(* C1: within a run, any two ticks in which should_send_notification       *)
(* returns True are more than the cooldown apart on the clock.             *)
C1_LiveOncePerCooldown ==
    \A i, j \in 1..Len(live_times) :
        i < j => live_times[j] - live_times[i] > cooldown

\* two live intents have fired in one run
C1_Witness ==
    /\ Len(live_times) = 2
    /\ live_times[2] - live_times[1] > cooldown

(* C2: a tick with an online snapshot emits one milestone intent for every *)
(* threshold the viewer count has reached that was not yet triggered, in   *)
(* ascending order, and ends with all of them triggered (thresholds        *)
(* [50,100,500], nothing triggered, 600 viewers: 50, 100, 500 in one tick).*)
C2_AllPassedMilestonesInOneTick ==
    (TickCommitted /\ stream_info.online) =>
        /\ MilestonesOf(intents) = PassedFrom(sorted(viewer_milestone_notifications), 1)
        /\ (tick_start.triggered_milestones = {} /\ stream_info.viewer_count = 600)
              => triggered_milestones = {50, 100, 500}

(* C3: triggered_milestones loses elements only in the commit of a tick    *)
(* whose snapshot is offline while last_online was true, and there it      *)
(* becomes empty; every other step of a tick keeps or extends it.          *)
C3_ResetOnlyOnOnlineOfflineEdge ==
    [][ /\ ~(triggered_milestones \subseteq triggered_milestones')
           => /\ pc = "update_state"
              /\ ~stream_info.online
              /\ last_online
              /\ triggered_milestones' = {}
        /\ (pc = "update_state" /\ pc' = "sleep" /\ ~stream_info.online /\ last_online)
           => triggered_milestones' = {} ]_vars

(* C4: within one online session of the real stream every threshold        *)
(* produces at most one milestone intent, whatever the polls report.       *)
C4_OneMilestoneIntentPerSession ==
    [][ \A m \in Range(viewer_milestone_notifications) :
           intents' = Append(intents, MilestoneIntent(m))
              => m \notin session_intents ]_vars

(* C5: whenever the process is stopped, the state load_state would give a  *)
(* new process equals the in-memory state of the stopped one, so the new   *)
(* process continues as the old one would have.                            *)
C5_PersistedEqualsMemoryAtStop ==
    pc = "stopped" => load_state(DefaultState, state_file) = Self

(* C6: update_state is idempotent: for every snapshot (online or None) and *)
(* every outcome of the write, applying it a second time with the same     *)
(* snapshot changes neither the in-memory state nor the state file.        *)
C6_UpdateStateIdempotent ==
    \A info \in Snapshots \cup {Offline}, io \in SaveOutcomes :
        LET once == update_state(Self, state_file, info, io)
        IN update_state(once.self, once.file, info, io) = once

\* update_state has committed an online snapshot on top of milestones
C6_Witness ==
    /\ TickCommitted
    /\ last_online
    /\ last_game = stream_info.game_name
    /\ triggered_milestones # {}
    /\ state_file = json_dump(Self)

(* C7 as stated: last_notification_time never decreases, and it changes in *)
(* a step only if a live notification is delivered in that step (not in    *)
(* silent mode, not when the send fails).                                  *)
C7_ChangesOnlyWhenDelivered ==
    [][ /\ last_notification_time' >= last_notification_time
        /\ last_notification_time' # last_notification_time
           => /\ Len(sent') = Len(sent) + 1
              /\ sent'[Len(sent')].kind = "live"
              /\ sent'[Len(sent')].result = "ok" ]_vars

(* C7 amended: last_notification_time never decreases, and it changes in a *)
(* step exactly when that step emits a live intent (should_send_notification*)
(* returns True), whether or not the notification is delivered.            *)
C7_ChangesOnlyWhenLiveIntent ==
    [][ /\ last_notification_time' >= last_notification_time
        /\ last_notification_time' # last_notification_time
           <=> intents' = Append(intents, LiveIntent) ]_vars

\* a live intent moved last_notification_time although nothing was delivered
C7_Witness ==
    /\ pc = "milestone"
    /\ intents = <<LiveIntent>>
    /\ last_notification_time = now
    /\ tick_start.last_notification_time < now
    /\ \A i \in 1..Len(sent) : sent[i].result # "ok"

(* C8: the evaluation steps (should_send_notification,                     *)
(* should_send_milestone_notification) leave the StreamState unchanged, so *)
(* a tick that is aborted before update_state leaves the state as it was   *)
(* when the tick began.                                                    *)
C8_OnlyCommitMutates ==
    [][ (pc = "notify" \/ pc = "milestone") => UNCHANGED policy ]_vars

(* C9: a tick whose poll failed (authentication or network error) emits no *)
(* intent and leaves the StreamState as it was when the tick began.        *)
C9_FailedPollSkipsTick ==
    poll_outcome \in {"network_error", "raised"} =>
        /\ intents = NoIntents
        /\ Self = tick_start

(* C10: the evaluation of an online snapshot emits a live intent iff the   *)
(* cooldown has strictly elapsed and either last_online is false, or       *)
(* last_online is true, notify_on_game_change is set and the game differs  *)
(* from last_game; a tick has at most one live intent and a tick with an   *)
(* offline snapshot has none.                                              *)
C10_LiveIntentRules ==
    [][ /\ (pc = "notify" /\ pc' # "stopped")
           => (intents' = Append(intents, LiveIntent)
               <=> /\ stream_info.online
                   /\ now - last_notification_time > cooldown
                   /\ \/ ~last_online
                      \/ /\ last_online
                         /\ notify_on_game_change
                         /\ stream_info.game_name # last_game)
        /\ LiveCount(intents') <= 1
        /\ ~stream_info'.online => LiveCount(intents') = 0 ]_vars

\* a game change during an online session fired the live intent
C10_Witness ==
    /\ pc = "milestone"
    /\ intents = <<LiveIntent>>
    /\ tick_start.last_online
    /\ tick_start.last_game # stream_info.game_name

(* C11: the cooldown does not gate milestones: in a tick with an online    *)
(* snapshot every configured threshold that was not triggered and that the *)
(* viewer count has reached yields a milestone intent, whatever            *)
(* last_notification_time is and whether or not a live intent fired, and   *)
(* the milestone intents leave last_notification_time alone.               *)
C11_ReachedThresholdsYieldIntents ==
    (pc = "update_state" /\ stream_info.online) =>
        /\ \A m \in Range(viewer_milestone_notifications) :
              (m \notin tick_start.triggered_milestones /\ stream_info.viewer_count >= m)
                 => MilestoneIntent(m) \in Range(intents)
        /\ last_notification_time =
              IF LiveCount(intents) > 0 THEN now
              ELSE tick_start.last_notification_time

C13_OnlyInterruptStopsLoop ==
    /\ [][ (pc' = "stopped" /\ pc # "stopped") => Interrupt ]_vars
    /\ []<>(pc = "poll" \/ pc = "stopped")

\* a tick that raised has slept the error delay and polls again
C13_Witness ==
    /\ pc = "poll"
    /\ slept = error_delay
    /\ state_file = CorruptFile

(* C14: the sleep that ends a tick is the base interval after an online    *)
(* snapshot, base interval times the offline multiplier after an offline   *)
(* snapshot, and the fixed error delay after a tick in which an error      *)
(* occurred (a poll that failed or any exception of the tick).             *)
C14_SleepIntervalPerTick ==
    [][ ((pc = "sleep" \/ pc = "error_sleep") /\ pc' = "poll") =>
           slept' = IF pc = "error_sleep" \/ poll_outcome # "ok"
                       THEN error_delay
                    ELSE IF stream_info.online
                       THEN interval_seconds
                    ELSE interval_seconds * offline_check_multiplier ]_vars

\* the state right after StreamState(config) was constructed
AtStartup == pc = "poll" /\ slept = 0

(* C15: when there is no state file, or loading it fails, the policy       *)
(* starts from the default state, no field taken from the unreadable file; *)
(* when saving fails the tick's state stays in memory.                     *)
C15_DefaultStateUnlessLoaded ==
    /\ (AtStartup /\ state_file.kind # "json") => Self = DefaultState
    /\ (TickCommitted /\ state_file # json_dump(Self))
          => /\ last_online = stream_info.online
             /\ stream_info.online => last_game = stream_info.game_name

(* C16: the configuration is the same in every state of the run, and every *)
(* live notification is sent with the configured live template, also after *)
(* a milestone notification was sent.                                      *)
C16_LiveTemplateIsConfigured ==
    /\ message_template = "live"
    /\ \A i \in 1..Len(sent) :
          sent[i].kind = "live" => sent[i].template = "live"

(* C17: at the start of every tick, last_online false implies that         *)
(* triggered_milestones is empty.                                          *)
C17_OfflineImpliesNoMilestones ==
    pc = "poll" => (~last_online => triggered_milestones = {})

(* C18: triggered_milestones is always a subset of the configured          *)
(* thresholds and downward-closed among them: with a threshold it holds    *)
(* every smaller configured threshold.                                     *)
C18_TriggeredDownwardClosed ==
    /\ triggered_milestones \subseteq Range(viewer_milestone_notifications)
    /\ \A m \in triggered_milestones :
          \A n \in Range(viewer_milestone_notifications) :
             n < m => n \in triggered_milestones

\* two thresholds were passed in two ticks of one session
C18_Witness ==
    /\ triggered_milestones = {50, 100}
    /\ pc = "update_state"
    /\ MilestoneIntent(100) \in Range(intents)

\* the configured thresholds up to T that the policy state s has not triggered
Untriggered(T, s) ==
    {n \in Range(viewer_milestone_notifications) :
        n <= T /\ n \notin s.triggered_milestones}

\* the tick is over (committed or aborted) and its poll gave an online snapshot
OnlineTickOver ==
    /\ pc = "sleep" \/ pc = "error_sleep"
    /\ poll_outcome = "ok"
    /\ stream_info.online

\* the tick brought every reached, untriggered threshold one step nearer:
\* one threshold below or at it was triggered and its intent emitted
MilestoneStep ==
    \A T \in Range(viewer_milestone_notifications) :
       (stream_info.viewer_count >= T /\ T \notin tick_start.triggered_milestones)
          => /\ Cardinality(Untriggered(T, Self))
                   = Cardinality(Untriggered(T, tick_start)) - 1
             /\ \E n \in Untriggered(T, tick_start) \ Untriggered(T, Self) :
                   MilestoneIntent(n) \in Range(intents)

C20_NoLiveIntentLaterInSession ==
    /\ (pc = "milestone" /\ session_intents # {} /\ LiveIntent \in Range(intents))
          => /\ notify_on_game_change
             /\ tick_start.last_online
             /\ stream_info.game_name # tick_start.last_game
    /\ (TickCommitted /\ stream_info.online)
          => (last_online /\ last_game = stream_info.game_name)

\* the tick is over, committed or aborted
TickOver == pc = "sleep" \/ pc = "error_sleep"

\* the policy state the tick leaves is the one a tick without any send
\* leaves for the same start state, snapshot and clock (a poll that raised
\* leaves the start state)
PolicyAsWithoutSends ==
    Self = IF poll_outcome = "raised" THEN tick_start
           ELSE tick_policy(tick_start, stream_info, now)

=============================================================================
